---- MODULE Spec2Model ----
(***************************************************************************)
(* Model of scripts/build_admin_boundary_geojson.py: the Municipality      *)
(* Grouper, the Edge Indexer and Classifier, and the Line Merger.          *)
(*                                                                         *)
(* Conventions.                                                            *)
(*  - A Python str is a sequence of code points (naturals); a missing or   *)
(*    None value is the empty sequence, which is what `x or ""` makes of   *)
(*    it.                                                                  *)
(*  - A raw (floating) coordinate is held as an integer number of HALF     *)
(*    quantization units: the raw value h stands for h / (2 * SCALE).      *)
(*    A dequantized coordinate is the exact fraction [n, d] = n / d.       *)
(*  - The iteration order of a Python set or dict is a nondeterministic    *)
(*    choice of the next element.                                          *)
(***************************************************************************)
EXTENDS Integers, Sequences, FiniteSets, TLC

VARIABLES
  features,            \* main: the N03 features read from the two baseline files
  fine_features,       \* main: the features of the fine polygon file
  target_pref_names,   \* main: extra_pref_names
  pc,                  \* position of main / of the function it is running
  gi,                  \* build_grouped_features: index of the next feature
  grouped,             \* build_grouped_features: area_code -> item
  grouped_out,         \* main: `grouped`, the emitted feature list
  excluded_municipalities,
  fi,                  \* build_extra_pref_boundary_features: index of the next fine feature
  edge_muni_counts,    \* Edge -> (municipality -> count)
  municipality_pref,   \* municipality -> pref_name
  municipality_edges,  \* municipality -> set of Edge
  muniLeft,            \* sorted municipalities still to be merged and emitted
  index,               \* enumerate(..., start=1) counter
  extra_out,           \* `out` of build_extra_pref_boundary_features
  edges,               \* merge_edges_to_lines: its argument
  adjacency,           \* merge_edges_to_lines: Point -> set of Point
  visited,             \* merge_edges_to_lines: set of Edge
  lines,               \* merge_edges_to_lines: list of paths
  linePhase,           \* history: which loop appended lines[i] ("p1" or "p2")
  consumed,            \* history: number of visited.add calls made so far
  mpc,                 \* position inside merge_edges_to_lines
  ret,                 \* loop that called walk ("p1" or "p2")
  nodesLeft,           \* adjacency.items() entries whose loop body has not run
  node,                \* loop variable of the first loop
  nbrsLeft,            \* neighbours of node whose loop body has not run
  edgesLeft,           \* edges whose second-loop body has not run
  start, prev, current, path,   \* locals of walk
  result               \* value returned by merge_edges_to_lines

mainVars == <<features, fine_features, target_pref_names, pc, gi, grouped,
              grouped_out, excluded_municipalities, fi, edge_muni_counts,
              municipality_pref, municipality_edges, muniLeft, index, extra_out>>
mergeVars == <<adjacency, visited, lines, linePhase, consumed, mpc, ret,
               nodesLeft, node, nbrsLeft, edgesLeft, start, prev, current, path, result>>
vars == <<mainVars, edges, mergeVars>>

-----------------------------------------------------------------------------
(* Bounds of the model *)
NumPoints == 4
MaxEdges == 4
MaxFeatures == 2
MaxFine == 2

(* Program constant *)
SCALE == 1000000

-----------------------------------------------------------------------------
(* Tuple comparison, as Python compares tuples of ints *)
PointLeq(a, b) == a[1] < b[1] \/ (a[1] = b[1] /\ a[2] <= b[2])

canonical_edge_directed(a, b) == <<a, b>>

canonical_edge(a, b) == IF PointLeq(a, b) THEN <<a, b>> ELSE <<b, a>>

(* round(): to nearest, ties to even; h is the value in half units *)
RoundHalf(h) ==
  LET lo == h \div 2
  IN  IF h % 2 = 0 THEN lo
      ELSE IF lo % 2 = 0 THEN lo ELSE lo + 1

quantize_point(coord) == <<RoundHalf(coord[1]), RoundHalf(coord[2])>>

dequantize_point(point) == <<[n |-> point[1], d |-> SCALE], [n |-> point[2], d |-> SCALE]>>

-----------------------------------------------------------------------------
(* Python str, as a sequence of code points *)

IsSpace(c) == c \in {9, 10, 11, 12, 13, 28, 29, 30, 31, 32, 133, 160, 12288}

RECURSIVE LStrip(_)
LStrip(s) == IF s /= <<>> /\ IsSpace(Head(s)) THEN LStrip(Tail(s)) ELSE s

RECURSIVE RStrip(_)
RStrip(s) == IF s /= <<>> /\ IsSpace(s[Len(s)]) THEN RStrip(SubSeq(s, 1, Len(s) - 1)) ELSE s

(* str.strip() *)
Strip(s) == RStrip(LStrip(s))

(* a or b *)
Or(a, b) == IF a /= <<>> THEN a ELSE b

(* s < t on str: lexicographic by code point *)
RECURSIVE StrLess(_, _)
StrLess(s, t) ==
  IF t = <<>> THEN FALSE
  ELSE IF s = <<>> THEN TRUE
  ELSE IF Head(s) /= Head(t) THEN Head(s) < Head(t)
  ELSE StrLess(Tail(s), Tail(t))

(* sorted(keys) of a set of str *)
RECURSIVE SortStrs(_)
SortStrs(S) ==
  IF S = {} THEN <<>>
  ELSE LET m == CHOOSE x \in S : \A y \in S \ {x} : StrLess(x, y)
       IN  <<m>> \o SortStrs(S \ {m})

SENTINEL == <<25152, 23646, 26410, 23450, 22320>>

-----------------------------------------------------------------------------
(* Features: [properties |-> props, geometry |-> geometry]. A geometry is  *)
(* [type, isList, coordinates]; NoGeometry is a missing or empty one.      *)

NoGeometry == [type |-> "", isList |-> FALSE, coordinates |-> <<>>]

canonical_municipality_dict(source) ==
  LET city == Strip(source.N03_004)
      ward == Strip(source.N03_005)
  IN  IF city /= <<>> /\ ward /= <<>> THEN city \o ward ELSE city

canonical_municipality_str(source) == Strip(source)

normalize_polygons(geometry) ==
  IF geometry = NoGeometry THEN <<>>
  ELSE IF geometry.type = "Polygon" /\ geometry.isList THEN <<geometry.coordinates>>
  ELSE IF geometry.type = "MultiPolygon" /\ geometry.isList THEN geometry.coordinates
  ELSE <<>>

canonical_pref_name(props) == Strip(Or(props.pref_name, props.N03_001))

RECURSIVE RingEdgesFrom(_, _)
RingEdgesFrom(ring, i) ==
  IF i > Len(ring) - 1 THEN <<>>
  ELSE LET a_raw == ring[i]
           b_raw == ring[i + 1]
       IN  IF Len(a_raw) < 2 \/ Len(b_raw) < 2 THEN RingEdgesFrom(ring, i + 1)
           ELSE IF quantize_point(a_raw) = quantize_point(b_raw) THEN RingEdgesFrom(ring, i + 1)
           ELSE <<canonical_edge(quantize_point(a_raw), quantize_point(b_raw))>>
                  \o RingEdgesFrom(ring, i + 1)

RECURSIVE PolyEdges(_)
PolyEdges(poly) ==
  IF poly = <<>> THEN <<>>
  ELSE (IF Len(Head(poly)) < 2 THEN <<>> ELSE RingEdgesFrom(Head(poly), 1)) \o PolyEdges(Tail(poly))

(* the edges iter_edges yields, in order *)
RECURSIVE iter_edges(_)
iter_edges(polygons) ==
  IF polygons = <<>> THEN <<>>
  ELSE PolyEdges(Head(polygons)) \o iter_edges(Tail(polygons))

-----------------------------------------------------------------------------
(* build_grouped_features *)

(* the three `continue`s of the accumulation loop *)
GroupSkips(ft) ==
  \/ Strip(ft.properties.N03_007) = <<>>
  \/ canonical_municipality_dict(ft.properties) = <<>>
  \/ canonical_municipality_dict(ft.properties) = SENTINEL
  \/ normalize_polygons(ft.geometry) = <<>>

GroupAddReplacing(g, ft) ==
  LET area_code == Strip(ft.properties.N03_007)
      item == [props |-> ft.properties,
               municipality |-> canonical_municipality_dict(ft.properties),
               polygons |-> normalize_polygons(ft.geometry)]
  IN  [c \in DOMAIN g \cup {area_code} |-> IF c = area_code THEN item ELSE g[c]]

GroupAdd(g, ft) ==
  LET area_code == Strip(ft.properties.N03_007)
      item == IF area_code \in DOMAIN g
              THEN g[area_code]
              ELSE [props |-> ft.properties,
                    municipality |-> canonical_municipality_dict(ft.properties),
                    polygons |-> <<>>]
      ext == [item EXCEPT !.polygons = @ \o normalize_polygons(ft.geometry)]
  IN  [c \in DOMAIN g \cup {area_code} |-> IF c = area_code THEN ext ELSE g[c]]

GroupedGeometry(polygons) ==
  IF Len(polygons) = 1
  THEN [type |-> "Polygon", coordinates |-> polygons[1]]
  ELSE [type |-> "MultiPolygon", coordinates |-> polygons]

GroupedFeature(area_code, item) ==
  [type |-> "Feature",
   properties |-> [N03_001 |-> Strip(item.props.N03_001),
                   N03_002 |-> Strip(item.props.N03_002),
                   N03_003 |-> Strip(item.props.N03_003),
                   N03_004 |-> Strip(item.props.N03_004),
                   N03_005 |-> Strip(item.props.N03_005),
                   N03_007 |-> area_code,
                   area_id |-> area_code,
                   area_name |-> item.municipality,
                   municipality |-> item.municipality,
                   pref_name |-> Strip(item.props.N03_001)],
   geometry |-> GroupedGeometry(item.polygons)]

indexVars == <<fi, edge_muni_counts, municipality_pref, municipality_edges, muniLeft, index, extra_out>>
inputVars == <<features, fine_features, target_pref_names>>

GroupFeature ==
  /\ pc = "group"
  /\ gi <= Len(features)
  /\ grouped' = IF GroupSkips(features[gi]) THEN grouped ELSE GroupAdd(grouped, features[gi])
  /\ gi' = gi + 1
  /\ UNCHANGED <<inputVars, pc, grouped_out, excluded_municipalities, indexVars, edges, mergeVars>>

GroupEmit ==
  /\ pc = "group"
  /\ gi > Len(features)
  /\ LET codes == SortStrs(DOMAIN grouped)
     IN  grouped_out' = [k \in 1..Len(codes) |-> GroupedFeature(codes[k], grouped[codes[k]])]
  /\ pc' = "exclude"
  /\ UNCHANGED <<inputVars, gi, grouped, excluded_municipalities, indexVars, edges, mergeVars>>

-----------------------------------------------------------------------------
(* merge_edges_to_lines *)

Degree(p) == Cardinality(adjacency[p])

BuildAdjacency(E) ==
  LET pts == {e[1] : e \in E} \cup {e[2] : e \in E}
  IN  [p \in pts |-> {e[2] : e \in {f \in E : f[1] = p}} \cup {e[1] : e \in {f \in E : f[2] = p}}]

CandidatesUnfiltered == adjacency[current]

Candidates == {pt \in adjacency[current] : pt /= prev /\ canonical_edge(current, pt) \notin visited}

KeepLine(line) == Len(line) >= 2

RECURSIVE FilterLines(_)
FilterLines(ls) ==
  IF ls = <<>> THEN <<>>
  ELSE IF KeepLine(Head(ls))
       THEN <<[i \in 1..Len(Head(ls)) |-> dequantize_point(Head(ls)[i])]>> \o FilterLines(Tail(ls))
       ELSE FilterLines(Tail(ls))

walkVars == <<start, prev, current, path>>

MergeBegin ==
  /\ mpc = "start"
  /\ IF edges = {}
     THEN /\ result' = <<>>
          /\ mpc' = "done"
          /\ UNCHANGED <<adjacency, nodesLeft>>
     ELSE /\ adjacency' = BuildAdjacency(edges)
          /\ nodesLeft' = DOMAIN BuildAdjacency(edges)
          /\ mpc' = "p1_node"
          /\ UNCHANGED result
  /\ visited' = {}
  /\ lines' = <<>>
  /\ linePhase' = <<>>
  /\ consumed' = 0
  /\ UNCHANGED <<mainVars, edges, ret, node, nbrsLeft, edgesLeft, walkVars>>

EnterWalkUnmarked(s, n, from) ==
  /\ path' = <<s, n>>
  /\ visited' = visited
  /\ consumed' = consumed + 1
  /\ start' = s
  /\ prev' = s
  /\ current' = n
  /\ ret' = from
  /\ mpc' = "walk"

EnterWalk(s, n, from) ==
  /\ path' = <<s, n>>
  /\ visited' = visited \cup {canonical_edge(s, n)}
  /\ consumed' = consumed + 1
  /\ start' = s
  /\ prev' = s
  /\ current' = n
  /\ ret' = from
  /\ mpc' = "walk"

(* An iteration that ends in `continue` changes nothing, so each loop     *)
(* action takes the next element for which the loop body runs, or leaves  *)
(* the loop when no such element is left.                                 *)
Phase1Node ==
  /\ mpc = "p1_node"
  /\ IF {n \in nodesLeft : Degree(n) /= 2} = {}
     THEN /\ mpc' = "p2_edge"
          /\ edgesLeft' = edges
          /\ UNCHANGED <<nodesLeft, node, nbrsLeft>>
     ELSE \E n \in {m \in nodesLeft : Degree(m) /= 2} :
            /\ nodesLeft' = nodesLeft \ {n}
            /\ node' = n
            /\ nbrsLeft' = adjacency[n]
            /\ mpc' = "p1_nbr"
            /\ UNCHANGED edgesLeft
  /\ UNCHANGED <<mainVars, edges, adjacency, visited, lines, linePhase, consumed, ret, walkVars, result>>

Phase1Neighbor ==
  /\ mpc = "p1_nbr"
  /\ IF {nb \in nbrsLeft : canonical_edge(node, nb) \notin visited} = {}
     THEN /\ mpc' = "p1_node"
          /\ UNCHANGED <<nbrsLeft, visited, consumed, ret, walkVars>>
     ELSE \E neighbor \in {nb \in nbrsLeft : canonical_edge(node, nb) \notin visited} :
            /\ nbrsLeft' = nbrsLeft \ {neighbor}
            /\ EnterWalk(node, neighbor, "p1")
  /\ UNCHANGED <<mainVars, edges, adjacency, lines, linePhase, nodesLeft, node, edgesLeft, result>>

WalkLoopThroughBranch ==
  /\ mpc = "walk"
  /\ IF Candidates = {}
     THEN /\ mpc' = "walk_ret"
          /\ UNCHANGED <<visited, consumed, walkVars>>
     ELSE \E next_point \in Candidates :
            /\ path' = Append(path, next_point)
            /\ visited' = visited \cup {canonical_edge(current, next_point)}
            /\ consumed' = consumed + 1
            /\ prev' = current
            /\ current' = next_point
            /\ mpc' = IF next_point = start THEN "walk_ret" ELSE "walk"
            /\ UNCHANGED start
  /\ UNCHANGED <<mainVars, edges, adjacency, lines, linePhase, ret, nodesLeft, node, nbrsLeft, edgesLeft, result>>

WalkLoop ==
  /\ mpc = "walk"
  /\ IF Candidates = {} \/ Degree(current) /= 2
     THEN /\ mpc' = "walk_ret"
          /\ UNCHANGED <<visited, consumed, walkVars>>
     ELSE \E next_point \in Candidates :
            /\ path' = Append(path, next_point)
            /\ visited' = visited \cup {canonical_edge(current, next_point)}
            /\ consumed' = consumed + 1
            /\ prev' = current
            /\ current' = next_point
            /\ mpc' = IF next_point = start THEN "walk_ret" ELSE "walk"
            /\ UNCHANGED start
  /\ UNCHANGED <<mainVars, edges, adjacency, lines, linePhase, ret, nodesLeft, node, nbrsLeft, edgesLeft, result>>

WalkReturn ==
  /\ mpc = "walk_ret"
  /\ lines' = Append(lines, path)
  /\ linePhase' = Append(linePhase, ret)
  /\ mpc' = IF ret = "p1" THEN "p1_nbr" ELSE "p2_edge"
  /\ UNCHANGED <<mainVars, edges, adjacency, visited, consumed, ret, nodesLeft, node, nbrsLeft, edgesLeft, walkVars, result>>

Phase2Edge ==
  /\ mpc = "p2_edge"
  /\ IF edgesLeft \ visited = {}
     THEN /\ mpc' = "ret"
          /\ UNCHANGED <<edgesLeft, visited, consumed, ret, walkVars>>
     ELSE \E edge \in edgesLeft \ visited :
            /\ edgesLeft' = edgesLeft \ {edge}
            /\ EnterWalk(edge[1], edge[2], "p2")
  /\ UNCHANGED <<mainVars, edges, adjacency, lines, linePhase, nodesLeft, node, nbrsLeft, result>>

MergeReturn ==
  /\ mpc = "ret"
  /\ result' = FilterLines(lines)
  /\ mpc' = "done"
  /\ UNCHANGED <<mainVars, edges, adjacency, visited, lines, linePhase, consumed, ret, nodesLeft, node, nbrsLeft, edgesLeft, walkVars>>

MergeStep ==
  \/ MergeBegin
  \/ Phase1Node
  \/ Phase1Neighbor
  \/ WalkLoop
  \/ WalkReturn
  \/ Phase2Edge
  \/ MergeReturn

-----------------------------------------------------------------------------
(* build_extra_pref_boundary_features and main *)

FineMunicipality(props) ==
  canonical_municipality_str(Or(Or(props.municipality, props.area_name), props.N03_004))

FineSkipsIgnoringExcluded(ft, targets, excluded) ==
  \/ targets /= {} /\ canonical_pref_name(ft.properties) \notin targets
  \/ FineMunicipality(ft.properties) = <<>>
  \/ normalize_polygons(ft.geometry) = <<>>

(* the three `continue`s of the indexing loop *)
FineSkips(ft, targets, excluded) ==
  \/ targets /= {} /\ canonical_pref_name(ft.properties) \notin targets
  \/ FineMunicipality(ft.properties) = <<>>
  \/ FineMunicipality(ft.properties) \in excluded
  \/ normalize_polygons(ft.geometry) = <<>>

CountEdgeOnce(counts, edge, municipality) ==
  LET counter == IF edge \in DOMAIN counts THEN counts[edge] ELSE <<>>
      bumped == [m \in DOMAIN counter \cup {municipality} |->
                   IF m = municipality THEN 1 ELSE counter[m]]
  IN  [e \in DOMAIN counts \cup {edge} |-> IF e = edge THEN bumped ELSE counts[e]]

(* edge_muni_counts[edge][municipality] += 1 *)
CountEdge(counts, edge, municipality) ==
  LET counter == IF edge \in DOMAIN counts THEN counts[edge] ELSE <<>>
      n == IF municipality \in DOMAIN counter THEN counter[municipality] ELSE 0
      bumped == [m \in DOMAIN counter \cup {municipality} |->
                   IF m = municipality THEN n + 1 ELSE counter[m]]
  IN  [e \in DOMAIN counts \cup {edge} |-> IF e = edge THEN bumped ELSE counts[e]]

RECURSIVE CountEdges(_, _, _)
CountEdges(counts, es, municipality) ==
  IF es = <<>> THEN counts
  ELSE CountEdges(CountEdge(counts, Head(es), municipality), Tail(es), municipality)

EdgeBelongsToEveryOwner(muni_counter, muni) == muni \in DOMAIN muni_counter

EdgeBelongsOnlyIfSole(muni_counter, muni) ==
  /\ muni \in DOMAIN muni_counter
  /\ Cardinality(DOMAIN muni_counter) = 1
  /\ muni_counter[muni] = 1

(* whether the classification loop adds the edge to municipality_edges[muni] *)
EdgeBelongs(muni_counter, muni) ==
  /\ muni \in DOMAIN muni_counter
  /\ IF Cardinality(DOMAIN muni_counter) = 1 THEN muni_counter[muni] = 1 ELSE TRUE

ClassifyEdges(counts) ==
  LET munis == UNION {DOMAIN counts[e] : e \in DOMAIN counts}
      keys == {m \in munis : \E e \in DOMAIN counts : EdgeBelongs(counts[e], m)}
  IN  [m \in keys |-> {e \in DOMAIN counts : EdgeBelongs(counts[e], m)}]

(* f"FINE-{index:05d}" *)
FineId(i) == <<70, 73, 78, 69, 45>> \o [k \in 1..5 |-> 48 + ((i \div (10 ^ (5 - k))) % 10)]

LineGeometry(ls) ==
  IF Len(ls) = 1
  THEN [type |-> "LineString", coordinates |-> ls[1]]
  ELSE [type |-> "MultiLineString", coordinates |-> ls]

BoundaryFeature(municipality, i, ls, prefs) ==
  LET pref_name == IF municipality \in DOMAIN prefs THEN prefs[municipality] ELSE <<>>
  IN  [type |-> "Feature",
       properties |-> [N03_001 |-> pref_name,
                       N03_002 |-> <<>>,
                       N03_003 |-> <<>>,
                       N03_004 |-> municipality,
                       N03_005 |-> <<>>,
                       N03_007 |-> FineId(i),
                       area_id |-> FineId(i),
                       area_name |-> municipality,
                       municipality |-> municipality,
                       pref_name |-> pref_name,
                       source |-> "fine-polygon-derived"],
       geometry |-> LineGeometry(ls)]

SortKey(ft) == <<ft.properties.pref_name, ft.properties.municipality, ft.properties.area_id>>

KeyLess(k, l) ==
  \/ StrLess(k[1], l[1])
  \/ k[1] = l[1] /\ StrLess(k[2], l[2])
  \/ k[1] = l[1] /\ k[2] = l[2] /\ StrLess(k[3], l[3])

RECURSIVE InsertSorted(_, _)
InsertSorted(q, x) ==
  IF q = <<>> THEN <<x>>
  ELSE IF KeyLess(SortKey(x), SortKey(Head(q))) THEN <<x>> \o q
  ELSE <<Head(q)>> \o InsertSorted(Tail(q), x)

(* list.sort(key=...): stable *)
RECURSIVE SortFeatures(_)
SortFeatures(q) ==
  IF q = <<>> THEN <<>>
  ELSE InsertSorted(SortFeatures(SubSeq(q, 1, Len(q) - 1)), q[Len(q)])

MainExclude ==
  /\ pc = "exclude"
  /\ excluded_municipalities' =
       {Strip(grouped_out[k].properties.municipality) : k \in 1..Len(grouped_out)}
  /\ \E exists \in BOOLEAN :
       pc' = IF target_pref_names /= {} /\ exists THEN "index" ELSE "sort"
  /\ UNCHANGED <<inputVars, gi, grouped, grouped_out, indexVars, edges, mergeVars>>

IndexFeature ==
  /\ pc = "index"
  /\ fi <= Len(fine_features)
  /\ LET ft == fine_features[fi]
         municipality == FineMunicipality(ft.properties)
     IN  IF FineSkips(ft, target_pref_names, excluded_municipalities)
         THEN UNCHANGED <<municipality_pref, edge_muni_counts>>
         ELSE /\ municipality_pref' =
                   [m \in DOMAIN municipality_pref \cup {municipality} |->
                      IF m = municipality THEN canonical_pref_name(ft.properties)
                      ELSE municipality_pref[m]]
              /\ edge_muni_counts' =
                   CountEdges(edge_muni_counts, iter_edges(normalize_polygons(ft.geometry)), municipality)
  /\ fi' = fi + 1
  /\ UNCHANGED <<inputVars, pc, gi, grouped, grouped_out, excluded_municipalities,
                 municipality_edges, muniLeft, index, extra_out, edges, mergeVars>>

Classify ==
  /\ pc = "index"
  /\ fi > Len(fine_features)
  /\ municipality_edges' = ClassifyEdges(edge_muni_counts)
  /\ muniLeft' = SortStrs(DOMAIN ClassifyEdges(edge_muni_counts))
  /\ index' = 1
  /\ extra_out' = <<>>
  /\ pc' = "emit"
  /\ UNCHANGED <<inputVars, gi, grouped, grouped_out, excluded_municipalities, fi,
                 edge_muni_counts, municipality_pref, edges, mergeVars>>

MergeCall ==
  /\ pc = "emit"
  /\ muniLeft /= <<>>
  /\ edges' = municipality_edges[Head(muniLeft)]
  /\ mpc' = "start"
  /\ pc' = "merging"
  /\ UNCHANGED <<inputVars, gi, grouped, grouped_out, excluded_municipalities, indexVars,
                 adjacency, visited, lines, linePhase, consumed, ret, nodesLeft, node,
                 nbrsLeft, edgesLeft, start, prev, current, path, result>>

EmitFeature ==
  /\ pc = "merging"
  /\ mpc = "done"
  /\ extra_out' = IF result = <<>> THEN extra_out
                  ELSE Append(extra_out, BoundaryFeature(Head(muniLeft), index, result, municipality_pref))
  /\ index' = index + 1
  /\ muniLeft' = Tail(muniLeft)
  /\ pc' = "emit"
  /\ mpc' = "idle"
  /\ UNCHANGED <<inputVars, gi, grouped, grouped_out, excluded_municipalities, fi,
                 edge_muni_counts, municipality_pref, municipality_edges, edges,
                 adjacency, visited, lines, linePhase, consumed, ret, nodesLeft, node,
                 nbrsLeft, edgesLeft, start, prev, current, path, result>>

DeriveReturn ==
  /\ pc = "emit"
  /\ muniLeft = <<>>
  /\ grouped_out' = grouped_out \o extra_out
  /\ pc' = "sort"
  /\ UNCHANGED <<inputVars, gi, grouped, excluded_municipalities, indexVars, edges, mergeVars>>

MainSort ==
  /\ pc = "sort"
  /\ grouped_out' = SortFeatures(grouped_out)
  /\ pc' = "done"
  /\ UNCHANGED <<inputVars, gi, grouped, excluded_municipalities, indexVars, edges, mergeVars>>

-----------------------------------------------------------------------------
(* The Line Merger on its own: every set of at most MaxEdges canonical     *)
(* non-degenerate edges over MergePoints.                                  *)

MergePoints == {<<i \div 2, i % 2>> : i \in 0..(NumPoints - 1)}
MergeEdges == {canonical_edge(a, b) : <<a, b>> \in {pq \in MergePoints \X MergePoints : pq[1] /= pq[2]}}

NoPoint == <<0, 0>>

MergeIdle ==
  /\ adjacency = <<>>
  /\ visited = {}
  /\ lines = <<>>
  /\ linePhase = <<>>
  /\ consumed = 0
  /\ ret = "p1"
  /\ nodesLeft = {}
  /\ node = NoPoint
  /\ nbrsLeft = {}
  /\ edgesLeft = {}
  /\ start = NoPoint
  /\ prev = NoPoint
  /\ current = NoPoint
  /\ path = <<>>
  /\ result = <<>>

MainIdle ==
  /\ features = <<>>
  /\ fine_features = <<>>
  /\ target_pref_names = {}
  /\ gi = 1
  /\ grouped = <<>>
  /\ grouped_out = <<>>
  /\ excluded_municipalities = {}
  /\ fi = 1
  /\ edge_muni_counts = <<>>
  /\ municipality_pref = <<>>
  /\ municipality_edges = <<>>
  /\ muniLeft = <<>>
  /\ index = 1
  /\ extra_out = <<>>

-----------------------------------------------------------------------------
(* Inputs.  Raw coordinates are in half units: Unit is the raw value 1.0.  *)

Unit == 2 * SCALE

SquareRing(x0) == << <<x0, 0>>, <<x0 + Unit, 0>>, <<x0 + Unit, Unit>>, <<x0, Unit>>, <<x0, 0>> >>

RECURSIVE Reverse(_)
Reverse(q) == IF q = <<>> THEN <<>> ELSE Append(Reverse(Tail(q)), Head(q))

SqL == <<SquareRing(0)>>
SqR == <<SquareRing(Unit)>>
SqRcw == <<Reverse(SquareRing(Unit))>>

Polygon(poly) == [type |-> "Polygon", isList |-> TRUE, coordinates |-> poly]
MultiPolygon(polys) == [type |-> "MultiPolygon", isList |-> TRUE, coordinates |-> polys]

StrA == <<65>>
StrB == <<66>>
StrW == <<87>>
PrefT == <<84>>
PrefP == <<80>>
PrefQ == <<81>>
Code2 == <<50>>
Code2Padded == <<32, 50>>
Code10 == <<49, 48>>

Props(n1, n4, n5, n7, muni, area, pref) ==
  [N03_001 |-> n1, N03_002 |-> <<>>, N03_003 |-> <<>>, N03_004 |-> n4, N03_005 |-> n5,
   N03_007 |-> n7, municipality |-> muni, area_name |-> area, pref_name |-> pref]

N03Feature(code, city, ward, geometry) ==
  [properties |-> Props(PrefT, city, ward, code, <<>>, <<>>, <<>>), geometry |-> geometry]

N03Codes == {Code2, Code2Padded, Code10, <<>>}
N03Names == {<<StrA, <<>>>>, <<StrB, StrW>>, <<SENTINEL, <<>>>>, <<<<>>, StrW>>}
N03Geometries == {Polygon(SqL), MultiPolygon(<<SqR, SqRcw>>), MultiPolygon(<<SqRcw>>), NoGeometry}

N03Catalogue ==
  {N03Feature(c, nm[1], nm[2], g) : <<c, nm, g>> \in N03Codes \X N03Names \X N03Geometries}

SeqsUpTo(S, n) == UNION {[1..k -> S] : k \in 0..n}

InitGroup ==
  /\ features \in SeqsUpTo(N03Catalogue, MaxFeatures)
  /\ fine_features = <<>>
  /\ target_pref_names = {}
  /\ pc = "group"
  /\ gi = 1
  /\ grouped = <<>>
  /\ grouped_out = <<>>
  /\ excluded_municipalities = {}
  /\ fi = 1
  /\ edge_muni_counts = <<>>
  /\ municipality_pref = <<>>
  /\ municipality_edges = <<>>
  /\ muniLeft = <<>>
  /\ index = 1
  /\ extra_out = <<>>
  /\ edges = {}
  /\ mpc = "idle"
  /\ MergeIdle

GroupStep == GroupFeature \/ GroupEmit

GroupSpec == InitGroup /\ [][GroupStep]_vars

InitMerge ==
  /\ pc = "merge_only"
  /\ MainIdle
  /\ edges \in {E \in SUBSET MergeEdges : Cardinality(E) <= MaxEdges}
  /\ mpc = "start"
  /\ MergeIdle

MergeSpec == InitMerge /\ [][MergeStep]_vars

FairMergeSpec == MergeSpec /\ WF_vars(MergeStep)

-----------------------------------------------------------------------------
(* The whole run of main *)

NoisySqL == << << <<0, 0>>, <<1, 0>>, <<0, Unit>>, <<Unit + 1, Unit - 1>>, <<Unit, 0>>, <<0, 0>> >> >>

FineFeature(muni, area, n4, pref, n1, geometry) ==
  [properties |-> Props(n1, n4, <<>>, <<>>, muni, area, pref), geometry |-> geometry]

FineCatalogue ==
  {FineFeature(StrA, <<>>, <<>>, PrefP, <<>>, Polygon(SqL)),
   FineFeature(StrA, <<>>, <<>>, PrefP, <<>>, Polygon(SqR)),
   FineFeature(<<>>, <<32, 66, 32>>, <<>>, PrefP, <<>>, Polygon(SqRcw)),
   FineFeature(<<>>, <<32, 66, 32>>, <<>>, PrefP, <<>>, Polygon(NoisySqL)),
   FineFeature(<<>>, <<32, 66, 32>>, <<>>, PrefP, <<>>, MultiPolygon(<<SqL, SqR>>)),
   FineFeature(<<>>, <<>>, SENTINEL, <<>>, PrefP, Polygon(SqL)),
   FineFeature(StrB, <<>>, <<>>, <<>>, PrefQ, Polygon(SqR))}

MainN03Inputs ==
  {<<>>,
   <<N03Feature(Code2, StrA, <<>>, Polygon(SqL))>>,
   <<N03Feature(Code10, SENTINEL, <<>>, Polygon(SqL))>>}

InitMain ==
  /\ features \in MainN03Inputs
  /\ fine_features \in SeqsUpTo(FineCatalogue, MaxFine)
  /\ target_pref_names \in {{}, {PrefP}}
  /\ pc = "group"
  /\ gi = 1
  /\ grouped = <<>>
  /\ grouped_out = <<>>
  /\ excluded_municipalities = {}
  /\ fi = 1
  /\ edge_muni_counts = <<>>
  /\ municipality_pref = <<>>
  /\ municipality_edges = <<>>
  /\ muniLeft = <<>>
  /\ index = 1
  /\ extra_out = <<>>
  /\ edges = {}
  /\ mpc = "idle"
  /\ MergeIdle

MainStep ==
  \/ GroupFeature
  \/ GroupEmit
  \/ MainExclude
  \/ IndexFeature
  \/ Classify
  \/ MergeCall
  \/ MergeStep
  \/ EmitFeature
  \/ DeriveReturn
  \/ MainSort

MainSpec == InitMain /\ [][MainStep]_vars

-----------------------------------------------------------------------------
(* Properties of the Line Merger *)

Segments(ls) == UNION {{<<i, j>> : j \in 1..(Len(ls[i]) - 1)} : i \in 1..Len(ls)}
SegmentOf(ls, ij) == {ls[ij[1]][ij[2]], ls[ij[1]][ij[2] + 1]}
IsClosed(line) == line[1] = line[Len(line)]

(* C1: when merge_edges_to_lines has returned, the consecutive point pairs *)
(* of the returned polylines are exactly the edges of its argument, each   *)
(* edge at exactly one position of one polyline, for every iteration       *)
(* order.                                                                  *)
C1_Partition ==
  mpc = "done" =>
    /\ {SegmentOf(result, ij) : ij \in Segments(result)}
         = {{dequantize_point(e[1]), dequantize_point(e[2])} : e \in edges}
    /\ Cardinality(Segments(result)) = Cardinality(edges)
    /\ \A ij, kl \in Segments(result) :
         SegmentOf(result, ij) = SegmentOf(result, kl) => ij = kl

C1_Witness ==
  /\ pc = "merge_only"
  /\ mpc = "done"
  /\ Cardinality(edges) = 4
  /\ Len(result) = 2
  /\ \E i \in 1..Len(result) : IsClosed(result[i])

C8_Progress ==
  /\ consumed = Cardinality(visited)
  /\ visited \subseteq edges
  /\ mpc \in {"ret", "done"} => visited = edges

(* C8: every visited.add made by walk adds an edge that was not visited    *)
(* before, so the number of walk steps never exceeds the number of edges;  *)
(* the merger reaches its return, and then every edge is visited.          *)
C8_Terminates == [](C8_Progress) /\ <>(mpc = "done")

C8_Witness ==
  /\ pc = "merge_only"
  /\ mpc = "done"
  /\ consumed = 4
  /\ Len(lines) = 1

(* C9: every polyline has at least 2 points and interior points of degree  *)
(* 2; a polyline of the first loop starts and ends at points of degree     *)
(* other than 2; a polyline of the second loop is closed and runs over     *)
(* points of degree 2 only; a walk stops at a degree-2 point only when     *)
(* that point is its own start.                                            *)
C9_MaximalChains ==
  /\ \A i \in 1..Len(lines) :
       LET line == lines[i] IN
         /\ Len(line) >= 2
         /\ \A j \in 2..(Len(line) - 1) : Degree(line[j]) = 2
         /\ linePhase[i] = "p1" => Degree(line[1]) /= 2 /\ Degree(line[Len(line)]) /= 2
         /\ linePhase[i] = "p2" => IsClosed(line) /\ \A j \in 1..Len(line) : Degree(line[j]) = 2
  /\ mpc = "walk_ret" => Degree(current) /= 2 \/ current = start
  /\ mpc = "done" =>
       /\ Len(result) = Len(lines)
       /\ \A i \in 1..Len(result) : Len(result[i]) = Len(lines[i]) /\ Len(result[i]) >= 2

C9_Witness ==
  /\ pc = "merge_only"
  /\ mpc = "done"
  /\ \E i, k \in 1..Len(lines) :
       /\ linePhase[i] = "p1" /\ IsClosed(lines[i]) /\ Len(lines[i]) = 4
       /\ linePhase[k] = "p1" /\ ~IsClosed(lines[k])

-----------------------------------------------------------------------------
(* Properties of the Municipality Grouper *)

C6_Counted(ft) ==
  /\ Strip(ft.properties.N03_007) /= <<>>
  /\ canonical_municipality_dict(ft.properties) /= <<>>
  /\ canonical_municipality_dict(ft.properties) /= SENTINEL
  /\ normalize_polygons(ft.geometry) /= <<>>

RECURSIVE C6_PolygonsOf(_, _)
C6_PolygonsOf(code, i) ==
  IF i > Len(features) THEN <<>>
  ELSE (IF C6_Counted(features[i]) /\ Strip(features[i].properties.N03_007) = code
        THEN normalize_polygons(features[i].geometry)
        ELSE <<>>) \o C6_PolygonsOf(code, i + 1)

(* C6: the Grouper emits one feature per administrative code that has a    *)
(* non-skipped feature, in ascending code order; its polygons are those of *)
(* the non-skipped features of that code in input order; the geometry is a *)
(* Polygon exactly when there is one polygon, a MultiPolygon otherwise.    *)
C6_GrouperGeometry ==
  pc = "exclude" =>
    LET codes == {Strip(features[i].properties.N03_007) :
                    i \in {j \in 1..Len(features) : C6_Counted(features[j])}}
    IN  /\ Len(grouped_out) = Cardinality(codes)
        /\ {grouped_out[k].properties.N03_007 : k \in 1..Len(grouped_out)} = codes
        /\ \A k \in 1..(Len(grouped_out) - 1) :
             StrLess(grouped_out[k].properties.N03_007, grouped_out[k + 1].properties.N03_007)
        /\ \A k \in 1..Len(grouped_out) :
             LET polygons == C6_PolygonsOf(grouped_out[k].properties.N03_007, 1)
                 g == grouped_out[k].geometry
             IN  /\ polygons /= <<>>
                 /\ g.type = "Polygon" <=> Len(polygons) = 1
                 /\ g.type = "Polygon" => g.coordinates = polygons[1]
                 /\ g.type /= "Polygon" => g.type = "MultiPolygon" /\ g.coordinates = polygons

C6_Witness ==
  /\ pc = "exclude"
  /\ Len(features) = 2
  /\ features[1].geometry.type = "Polygon"
  /\ features[2].geometry.type = "MultiPolygon"
  /\ Len(grouped_out) = 1
  /\ grouped_out[1].geometry = [type |-> "MultiPolygon", coordinates |-> <<SqL, SqRcw>>]

-----------------------------------------------------------------------------
(* Properties of the Edge Indexer and Classifier *)

Occurrences(es, e) == Cardinality({k \in 1..Len(es) : es[k] = e})

(* number of times the first `upto` fine features that are not skipped     *)
(* under the exclusion set `excl` reference edge e for municipality m      *)
RECURSIVE RefCount(_, _, _, _)
RefCount(e, m, excl, upto) ==
  IF upto = 0 THEN 0
  ELSE LET ft == fine_features[upto]
       IN  RefCount(e, m, excl, upto - 1)
             + (IF /\ ~(target_pref_names /= {} /\ canonical_pref_name(ft.properties) \notin target_pref_names)
                   /\ FineMunicipality(ft.properties) = m
                   /\ m /= <<>>
                   /\ m \notin excl
                THEN Occurrences(iter_edges(normalize_polygons(ft.geometry)), e)
                ELSE 0)

SeqRange(q) == {q[k] : k \in 1..Len(q)}
EdgesSeen ==
  UNION {SeqRange(iter_edges(normalize_polygons(fine_features[i].geometry))) : i \in 1..Len(fine_features)}
FineNamesSeen == {FineMunicipality(fine_features[i].properties) : i \in 1..Len(fine_features)}
Owners(e, excl) == {m \in FineNamesSeen : RefCount(e, m, excl, Len(fine_features)) > 0}
InBoundarySet(m, e) == m \in DOMAIN municipality_edges /\ e \in municipality_edges[m]
(* the state Classify leaves; neither the counts nor the boundary sets     *)
(* change after it                                                         *)
Classified == pc = "emit" /\ index = 1

SharedEdge == <<<<SCALE, 0>>, <<SCALE, SCALE>>>>

(* C2: once all features are counted and classified, an edge referenced by *)
(* two or more municipalities is in the boundary set of each of them; an   *)
(* edge referenced once by a single municipality is in that set only; an   *)
(* edge referenced more than once by a single municipality is in no set.   *)
C2_ClassifierSymmetry ==
  Classified =>
    /\ DOMAIN edge_muni_counts = {e \in DOMAIN edge_muni_counts : Owners(e, excluded_municipalities) /= {}}
    /\ \A e \in DOMAIN edge_muni_counts :
         LET owners == Owners(e, excluded_municipalities)
         IN  /\ Cardinality(owners) >= 2 => \A m \in owners : InBoundarySet(m, e)
             /\ Cardinality(owners) = 1 =>
                  \A m \in owners :
                    IF RefCount(e, m, excluded_municipalities, Len(fine_features)) = 1
                    THEN InBoundarySet(m, e) /\ \A o \in FineNamesSeen \ {m} : ~InBoundarySet(o, e)
                    ELSE \A o \in FineNamesSeen : ~InBoundarySet(o, e)

C2_Witness ==
  /\ Classified
  /\ Cardinality(Owners(SharedEdge, excluded_municipalities)) = 2
  /\ \E m \in Owners(SharedEdge, excluded_municipalities) :
       RefCount(SharedEdge, m, excluded_municipalities, Len(fine_features)) = 2
  /\ \A m \in Owners(SharedEdge, excluded_municipalities) : InBoundarySet(m, SharedEdge)
  /\ \E e \in DOMAIN edge_muni_counts : Cardinality(Owners(e, excluded_municipalities)) = 1

(* The quantized end points of the k-th segment of a ring *)
RawSegments ==
  {<<i, p, r, k>> \in (1..Len(fine_features)) \X (1..2) \X (1..1) \X (1..5) :
     /\ i < fi
     /\ ~FineSkips(fine_features[i], target_pref_names, excluded_municipalities)
     /\ p <= Len(normalize_polygons(fine_features[i].geometry))
     /\ r <= Len(normalize_polygons(fine_features[i].geometry)[p])
     /\ k < Len(normalize_polygons(fine_features[i].geometry)[p][r])}
SegFrom(t) == quantize_point(normalize_polygons(fine_features[t[1]].geometry)[t[2]][t[3]][t[4]])
SegTo(t) == quantize_point(normalize_polygons(fine_features[t[1]].geometry)[t[2]][t[3]][t[4] + 1])
TotalCount(e) ==
  LET c == edge_muni_counts[e]
      RECURSIVE Sum(_)
      Sum(S) == IF S = {} THEN 0 ELSE LET m == CHOOSE x \in S : TRUE IN c[m] + Sum(S \ {m})
  IN  Sum(DOMAIN c)

(* C7: canonical_edge(a, b) = canonical_edge(b, a), smaller point first;   *)
(* every key the Edge Indexer records has two distinct end points in that  *)
(* order; the count under a key is the number of segments walked between   *)
(* its two end points, in either direction.                                *)
C7_EdgeIdentity ==
  pc = "index" =>
    /\ \A a, b \in {SegFrom(t) : t \in RawSegments} \cup {SegTo(t) : t \in RawSegments} :
         /\ canonical_edge(a, b) = canonical_edge(b, a)
         /\ {canonical_edge(a, b)[1], canonical_edge(a, b)[2]} = {a, b}
         /\ PointLeq(canonical_edge(a, b)[1], canonical_edge(a, b)[2])
    /\ \A t \in RawSegments :
         SegFrom(t) /= SegTo(t) => canonical_edge(SegFrom(t), SegTo(t)) \in DOMAIN edge_muni_counts
    /\ \A e \in DOMAIN edge_muni_counts :
         /\ e[1] /= e[2]
         /\ PointLeq(e[1], e[2])
         /\ TotalCount(e) = Cardinality({t \in RawSegments : {SegFrom(t), SegTo(t)} = {e[1], e[2]}})

C7_Witness ==
  /\ pc = "index"
  /\ \E t, u \in RawSegments :
       /\ SegFrom(t) = SegTo(u) /\ SegTo(t) = SegFrom(u) /\ SegFrom(t) /= SegTo(t)
       /\ TotalCount(canonical_edge(SegFrom(t), SegTo(t))) = 2
  /\ \E t \in RawSegments : SegFrom(t) = SegTo(t)

-----------------------------------------------------------------------------
(* Scenarios *)

FtA_SqL == FineFeature(StrA, <<>>, <<>>, PrefP, <<>>, Polygon(SqL))
FtA_SqR == FineFeature(StrA, <<>>, <<>>, PrefP, <<>>, Polygon(SqR))
FtB_SqR == FineFeature(<<>>, <<32, 66, 32>>, <<>>, PrefP, <<>>, Polygon(SqRcw))
FtB_Both == FineFeature(<<>>, <<32, 66, 32>>, <<>>, PrefP, <<>>, MultiPolygon(<<SqL, SqR>>))

MergedFor(m) == pc = "merging" /\ mpc = "done" /\ Head(muniLeft) = m

SquareEdges(x0) ==
  {<<<<x0, 0>>, <<x0 + SCALE, 0>>>>, <<<<x0, 0>>, <<x0, SCALE>>>>,
   <<<<x0, SCALE>>, <<x0 + SCALE, SCALE>>>>, <<<<x0 + SCALE, 0>>, <<x0 + SCALE, SCALE>>>>}

TwoSquaresTwoOwners ==
  /\ fine_features \in {<<FtA_SqL, FtB_SqR>>, <<FtB_SqR, FtA_SqL>>}
  /\ excluded_municipalities = {}

(* C3 as stated: for two municipalities with one unit square each, the     *)
(* merger output holds an open chain that is exactly the shared edge, plus  *)
(* further polylines.                                                       *)
C3_AsStated ==
  TwoSquaresTwoOwners /\ (MergedFor(StrA) \/ MergedFor(StrB)) =>
    /\ InBoundarySet(StrA, SharedEdge) /\ InBoundarySet(StrB, SharedEdge)
    /\ Len(lines) >= 2
    /\ \E i \in 1..Len(lines) :
         lines[i] \in {<<SharedEdge[1], SharedEdge[2]>>, <<SharedEdge[2], SharedEdge[1]>>}

(* C3, amended: for two municipalities with one unit square each, the      *)
(* shared edge is in both boundary sets, and the merger output for each    *)
(* municipality is a single closed polyline of 5 points running over the   *)
(* four edges of its own square, the shared edge among them.               *)
C3_TwoSquares ==
  TwoSquaresTwoOwners /\ (MergedFor(StrA) \/ MergedFor(StrB)) =>
    /\ InBoundarySet(StrA, SharedEdge) /\ InBoundarySet(StrB, SharedEdge)
    /\ edges = SquareEdges(IF MergedFor(StrA) THEN 0 ELSE SCALE)
    /\ Len(result) = 1
    /\ Len(result[1]) = 5
    /\ IsClosed(result[1])
    /\ {SegmentOf(result, ij) : ij \in Segments(result)}
         = {{dequantize_point(e[1]), dequantize_point(e[2])} : e \in edges}

C3_Witness ==
  /\ TwoSquaresTwoOwners
  /\ MergedFor(StrB)
  /\ Len(extra_out) = 1
  /\ extra_out[1].geometry.type = "LineString"
  /\ Len(result) = 1

TwoSquaresOneOwner ==
  /\ \/ fine_features \in {<<FtA_SqL, FtA_SqR>>, <<FtA_SqR, FtA_SqL>>} /\ MergedFor(StrA)
     \/ fine_features = <<FtB_Both>> /\ MergedFor(StrB)
  /\ excluded_municipalities = {}

(* C4: for one municipality made of two adjacent unit squares, the shared  *)
(* edge is in no boundary set and the merger returns exactly one polyline, *)
(* closed, of 7 points, over the 6 edges of the rectangle's perimeter.     *)
C4_OneOwnerTwoSquares ==
  TwoSquaresOneOwner =>
    /\ \A m \in FineNamesSeen : ~InBoundarySet(m, SharedEdge)
    /\ edges = (SquareEdges(0) \cup SquareEdges(SCALE)) \ {SharedEdge}
    /\ Cardinality(edges) = 6
    /\ Len(result) = 1
    /\ Len(result[1]) = 7
    /\ IsClosed(result[1])
    /\ {SegmentOf(result, ij) : ij \in Segments(result)}
         = {{dequantize_point(e[1]), dequantize_point(e[2])} : e \in edges}

C4_Witness ==
  /\ TwoSquaresOneOwner
  /\ fine_features = <<FtA_SqL, FtA_SqR>>
  /\ edge_muni_counts[SharedEdge][StrA] = 2
  /\ Len(result) = 1

-----------------------------------------------------------------------------
(* Exclusions *)

IsAreaFeature(ft) == ft.geometry.type \in {"Polygon", "MultiPolygon"}
IsLineFeature(ft) == ft.geometry.type \in {"LineString", "MultiLineString"}

(* C5: no feature of the Grouper and no boundary-derived feature carries   *)
(* the sentinel name, and the sentinel has no edge ownership count.        *)
C5_SentinelExcluded ==
  /\ \A k \in 1..Len(grouped_out) : grouped_out[k].properties.municipality /= SENTINEL
  /\ \A k \in 1..Len(extra_out) : extra_out[k].properties.municipality /= SENTINEL
  /\ \A e \in DOMAIN edge_muni_counts : SENTINEL \notin DOMAIN edge_muni_counts[e]

(* C10: in the final output no municipality name is carried both by a      *)
(* Polygon/MultiPolygon feature and by a LineString/MultiLineString        *)
(* feature; excluded municipalities have no edge ownership counts; for a   *)
(* municipality that is not excluded an edge is classified by the          *)
(* references of the non-excluded municipalities alone.                    *)
C10_Exclusion ==
  /\ pc = "done" =>
       \A k, l \in 1..Len(grouped_out) :
         IsAreaFeature(grouped_out[k]) /\ IsLineFeature(grouped_out[l]) =>
           grouped_out[k].properties.municipality /= grouped_out[l].properties.municipality
  /\ pc = "index" =>
       \A e \in DOMAIN edge_muni_counts : DOMAIN edge_muni_counts[e] \cap excluded_municipalities = {}
  /\ Classified =>
       \A m \in FineNamesSeen \ excluded_municipalities :
         \A e \in EdgesSeen :
           LET raw == Owners(e, {})
               kept == raw \ excluded_municipalities
           IN  InBoundarySet(m, e) <=>
                 /\ m \in kept
                 /\ Cardinality(kept) = 1 => RefCount(e, m, {}, Len(fine_features)) = 1

C10_Witness ==
  /\ pc = "done"
  /\ excluded_municipalities = {StrA}
  /\ fine_features = <<FtA_SqL, FtB_Both>>
  /\ \E k, l \in 1..Len(grouped_out) :
       /\ IsAreaFeature(grouped_out[k]) /\ grouped_out[k].properties.municipality = StrA
       /\ IsLineFeature(grouped_out[l]) /\ grouped_out[l].properties.municipality = StrB
       /\ Len(grouped_out[l].geometry.coordinates) = 7

====
